---- MODULE Spec2Model ----
(***************************************************************************)
(* Model of script/b58hex.py: the hex <-> base58 codec (Bitcoin alphabet,  *)
(* no checksum) and its command-line driver.                               *)
(*                                                                         *)
(* A Python str is a sequence of code points (natural numbers), a bytes    *)
(* object a sequence of 0..255, an int a TLA+ integer; the bounds below    *)
(* keep every value under 2^31.  The conversion routines are modelled twice*)
(* from the same helper operators: as the operators hex_to_b58 and         *)
(* b58_to_hex (the functions' results) and as the steps of the process     *)
(* that main() runs (one action per group of source lines, one loop        *)
(* iteration per step).                                                    *)
(***************************************************************************)
EXTENDS Integers, Sequences, FiniteSets, TLC

(***************************************************************************)
(* Characters and string literals of the source.                           *)
(***************************************************************************)

\* ALPH, line 15: '123456789ABCDEFGHJKLMNPQRSTUVWXYZabcdefghijkmnopqrstuvwxyz'
ALPH == <<49, 50, 51, 52, 53, 54, 55, 56, 57, 65, 66, 67, 68, 69, 70, 71, 72, 74, 75, 76, 77, 78, 80, 81, 82, 83, 84, 85, 86, 87, 88, 89, 90, 97, 98, 99, 100, 101, 102, 103, 104, 105, 106, 107, 109, 110, 111, 112, 113, 114, 115, 116, 117, 118, 119, 120, 121, 122>>

\* ALPH_MAP, line 16: {c: i for i, c in enumerate(ALPH)}; its keys ...
ALPH_KEYS == {ALPH[i] : i \in 1..Len(ALPH)}

\* ... and its values (0-based digit values).
ALPH_MAP(c) == (CHOOSE i \in 1..Len(ALPH) : ALPH[i] = c) - 1

\* The radix of divmod(n, 58) and n * 58.
Radix == 58

\* '1', the character of '1' * pad and lstrip('1').
ONE == 49

\* b'\x00', the byte of lstrip(b'\x00') and b'\x00' * pad.
ZERO_BYTE == 0

\* ' ', the character of replace(' ', '').
SPACE == 32

\* '\n'
NEWLINE == 10

\* '/', the separator of sys.argv[0].split('/').
SLASH == 47

\* The characters str.strip() removes, among the ASCII ones: \t \n \v \f \r,
\* \x1c..\x1f and the space.
WHITESPACE == (9..13) \cup (28..31) \cup {SPACE}

\* The character class [0-9a-f] of the regular expression.
HEXCLASS == (48..57) \cup (97..102)

\* The prefixes of h.startswith(('0x','0X')).
PREFIXES == {<<48, 120>>, <<48, 88>>}

\* 'hex2b58' and 'b582hex', the subcommands main compares cmd with.
HEX2B58 == <<104, 101, 120, 50, 98, 53, 56>>

B582HEX == <<98, 53, 56, 50, 104, 101, 120>>

\* 'argument must be an even-length hex string (optionally with 0x)'
MsgBadHex == <<97, 114, 103, 117, 109, 101, 110, 116, 32, 109, 117, 115, 116, 32, 98, 101, 32, 97, 110, 32, 101, 118, 101, 110, 45, 108, 101, 110, 103, 116, 104, 32, 104, 101, 120, 32, 115, 116, 114, 105, 110, 103, 32, 40, 111, 112, 116, 105, 111, 110, 97, 108, 108, 121, 32, 119, 105, 116, 104, 32, 48, 120, 41>>

\* 'empty base58 string'
MsgEmptyB58 == <<101, 109, 112, 116, 121, 32, 98, 97, 115, 101, 53, 56, 32, 115, 116, 114, 105, 110, 103>>

\* 'invalid base58 character(s): '
MsgBadB58 == <<105, 110, 118, 97, 108, 105, 100, 32, 98, 97, 115, 101, 53, 56, 32, 99, 104, 97, 114, 97, 99, 116, 101, 114, 40, 115, 41, 58, 32>>

\* 'error: '
ErrPrefix == <<101, 114, 114, 111, 114, 58, 32>>

\* "Usage:\n  ", " hex2b58 <hex|0xhex>\n  " and " b582hex <base58>\n"
UsageHead == <<85, 115, 97, 103, 101, 58, 10, 32, 32>>

UsageHex == <<32, 104, 101, 120, 50, 98, 53, 56, 32, 60, 104, 101, 120, 124, 48, 120, 104, 101, 120, 62, 10, 32, 32>>

UsageB58 == <<32, 98, 53, 56, 50, 104, 101, 120, 32, 60, 98, 97, 115, 101, 53, 56, 62, 10>>

(***************************************************************************)
(* The str and bytes methods the source calls.                             *)
(***************************************************************************)

\* s[i:] for 0-based i (a slice past the end is empty).
Drop(s, k) == IF k >= Len(s) THEN <<>> ELSE SubSeq(s, k + 1, Len(s))

\* The number of leading elements of s that lie in set.
RECURSIVE LeadRun(_, _)
LeadRun(s, set) ==
    IF s # <<>> /\ Head(s) \in set THEN 1 + LeadRun(Tail(s), set) ELSE 0

\* The number of trailing elements of s that lie in set.
RECURSIVE TrailRun(_, _)
TrailRun(s, set) ==
    IF s # <<>> /\ s[Len(s)] \in set
    THEN 1 + TrailRun(SubSeq(s, 1, Len(s) - 1), set)
    ELSE 0

\* s.lstrip(chars)
LStrip(s, set) == Drop(s, LeadRun(s, set))

\* s.strip(): leading and trailing whitespace removed.
Strip(s) ==
    LET t == LStrip(s, WHITESPACE)
    IN  SubSeq(t, 1, Len(t) - TrailRun(t, WHITESPACE))

\* A variant of RemoveSpaces: the replace(' ', '') left out.
KeepSpaces(s) == s

\* s.replace(' ', '')
RemoveSpaces(s) == SelectSeq(s, LAMBDA c : c # SPACE)

\* s.lower(), on ASCII: A-Z become a-z, everything else stays.
Lower(s) == [i \in 1..Len(s) |-> IF s[i] \in 65..90 THEN s[i] + 32 ELSE s[i]]

\* A variant of StartsWithPrefix: h.startswith('0x') alone.
StartsWithLower0x(h) == Len(h) >= 2 /\ SubSeq(h, 1, 2) = <<48, 120>>

\* h.startswith(('0x','0X'))
StartsWithPrefix(h) == Len(h) >= 2 /\ SubSeq(h, 1, 2) \in PREFIXES

\* c * k: k copies of the element c.
Repeat(c, k) == [i \in 1..k |-> c]

(***************************************************************************)
(* hex_to_b58, lines 18-33.                                                *)
(***************************************************************************)

\* Lines 19-21: the prefix is cut first, then the string is stripped,
\* its spaces removed, and lowercased.
HexNormalize(h) ==
    Lower(RemoveSpaces(Strip(IF StartsWithPrefix(h) THEN Drop(h, 2) ELSE h)))

\* A variant of HexValid: the test of len(h) % 2 left out.
HexValidAnyLength(h) ==
    /\ h # <<>>
    /\ \A i \in 1..Len(h) : h[i] \in HEXCLASS

\* Line 22, negated: the string passes `not h or len(h) % 2 != 0 or not
\* re.fullmatch(r'[0-9a-f]+', h)`.
HexValid(h) ==
    /\ h # <<>>
    /\ Len(h) % 2 = 0
    /\ \A i \in 1..Len(h) : h[i] \in HEXCLASS

\* The value of one hex digit of [0-9a-f].
HexVal(c) == IF c <= 57 THEN c - 48 ELSE c - 87

\* binascii.unhexlify(h), line 24: one byte per pair of digits.
Unhexlify(h) ==
    [i \in 1..(Len(h) \div 2) |-> 16 * HexVal(h[2 * i - 1]) + HexVal(h[2 * i])]

\* int.from_bytes(b, 'big'), line 25.
RECURSIVE FromBytesBig(_)
FromBytesBig(b) ==
    IF b = <<>> THEN 0
    ELSE 256 * FromBytesBig(SubSeq(b, 1, Len(b) - 1)) + b[Len(b)]

\* A variant of EncodeStep: s = s + ALPH[r], the digit put last.
EncodeStepAppend(st) ==
    [n |-> st.n \div Radix, s |-> st.s \o <<ALPH[(st.n % Radix) + 1]>>]

\* One iteration of the loop of lines 28-30 on the pair (n, s):
\* n, r = divmod(n, 58); s = ALPH[r] + s.
EncodeStep(st) ==
    [n |-> st.n \div Radix, s |-> <<ALPH[(st.n % Radix) + 1]>> \o st.s]

\* The loop of lines 28-30 run to its end: `while n:`.
RECURSIVE EncodeLoop(_)
EncodeLoop(st) == IF st.n = 0 THEN st.s ELSE EncodeLoop(EncodeStep(st))

\* A variant of HexPad: b.count(b'\x00'), every zero byte counted.
HexPadAllZeros(b) == Cardinality({k \in 1..Len(b) : b[k] = ZERO_BYTE})

\* Line 32: pad = len(b) - len(b.lstrip(b'\x00')).
HexPad(b) == Len(b) - Len(LStrip(b, {ZERO_BYTE}))

\* Line 33: ('1' * pad) + s if s else ('1' * pad).
HexResult(pad, s) ==
    IF s # <<>> THEN Repeat(ONE, pad) \o s ELSE Repeat(ONE, pad)

\* The function as a whole: [ok |-> TRUE, val |-> the string returned] or
\* [ok |-> FALSE, val |-> the message of the ValueError raised].
hex_to_b58(h0) ==
    LET h == HexNormalize(h0)
    IN  IF ~HexValid(h)
        THEN [ok |-> FALSE, val |-> MsgBadHex]
        ELSE LET b == Unhexlify(h)
                 s == EncodeLoop([n |-> FromBytesBig(b), s |-> <<>>])
             IN  [ok |-> TRUE, val |-> HexResult(HexPad(b), s)]

(***************************************************************************)
(* b58_to_hex, lines 35-50.                                                *)
(***************************************************************************)

\* Line 39: bad = [c for c in s if c not in ALPH_MAP].
BadChars(s) == SelectSeq(s, LAMBDA c : c \notin ALPH_KEYS)

\* sorted(set): the elements of a finite set of code points in ascending
\* order (Python orders the characters of a str by code point).
RECURSIVE Sorted(_)
Sorted(set) ==
    IF set = {} THEN <<>>
    ELSE LET m == CHOOSE x \in set : \A y \in set : x <= y
         IN  <<m>> \o Sorted(set \ {m})

\* A variant of B58BadMessage: "".join(bad), neither set() nor sorted().
B58BadMessageAsFound(bad) == MsgBadB58 \o bad

\* Line 41: "".join(sorted(set(bad))) after the fixed text of the message.
B58BadMessage(bad) ==
    MsgBadB58 \o Sorted({bad[i] : i \in 1..Len(bad)})

\* One iteration of the loop of lines 44-45 on the pair (n, i), i the number
\* of characters of s already read: n = n * 58 + ALPH_MAP[c].
DecodeStep(st, s) ==
    [n |-> st.n * Radix + ALPH_MAP(s[st.i + 1]), i |-> st.i + 1]

\* The loop of lines 44-45 run to its end: `for c in s`.
RECURSIVE DecodeLoop(_, _)
DecodeLoop(st, s) ==
    IF st.i = Len(s) THEN st.n ELSE DecodeLoop(DecodeStep(st, s), s)

\* n.bit_length()
RECURSIVE BitLength(_)
BitLength(n) == IF n = 0 THEN 0 ELSE 1 + BitLength(n \div 2)

\* n.to_bytes(length, 'big') for an n that fits in length bytes.
RECURSIVE ToBytesBig(_, _)
ToBytesBig(n, length) ==
    IF length = 0 THEN <<>>
    ELSE ToBytesBig(n \div 256, length - 1) \o <<n % 256>>

\* A variant of MinimalBytes: no case for n == 0, one byte at least.
MinimalBytesAtLeastOne(n) ==
    ToBytesBig(n, IF n = 0 THEN 1 ELSE (BitLength(n) + 7) \div 8)

\* Line 47: b'' if n == 0 else n.to_bytes((n.bit_length() + 7) // 8, 'big').
MinimalBytes(n) ==
    IF n = 0 THEN <<>> ELSE ToBytesBig(n, (BitLength(n) + 7) \div 8)

\* Line 48: pad = len(s) - len(s.lstrip('1')).
B58Pad(s) == Len(s) - Len(LStrip(s, {ONE}))

\* One hex digit 0..15 as a character of '0123456789abcdef'.
HexChar(d) == IF d < 10 THEN 48 + d ELSE 87 + d

\* bytes.hex(), line 50: two lowercase hex digits per byte.
BytesHex(b) ==
    [i \in 1..(2 * Len(b)) |->
        IF i % 2 = 1 THEN HexChar(b[(i + 1) \div 2] \div 16)
        ELSE HexChar(b[i \div 2] % 16)]

\* Lines 49-50: b = (b'\x00' * pad) + b; return b.hex().
B58Result(pad, b) == BytesHex(Repeat(ZERO_BYTE, pad) \o b)

\* The function as a whole, with the result shaped as hex_to_b58's.
b58_to_hex(s0) ==
    LET s == Strip(s0)
        bad == BadChars(s)
    IN  IF s = <<>> THEN [ok |-> FALSE, val |-> MsgEmptyB58]
        ELSE IF bad # <<>> THEN [ok |-> FALSE, val |-> B58BadMessage(bad)]
        ELSE [ok |-> TRUE,
              val |-> B58Result(B58Pad(s),
                                MinimalBytes(DecodeLoop([n |-> 0, i |-> 0], s)))]

(***************************************************************************)
(* usage, lines 52-56.                                                     *)
(***************************************************************************)

\* Line 53: sys.argv[0].split('/')[-1], the part after the last '/'.
RECURSIVE Basename(_)
Basename(path) ==
    IF path = <<>> \/ path[Len(path)] = SLASH THEN <<>>
    ELSE Basename(SubSeq(path, 1, Len(path) - 1)) \o <<path[Len(path)]>>

\* Line 54: the usage text.
UsageMsg(argv0) ==
    LET prog == Basename(argv0)
    IN  UsageHead \o prog \o UsageHex \o prog \o UsageB58

(***************************************************************************)
(* The command lines the process is started with.                          *)
(***************************************************************************)

\* Longest argument drawn from the hex digits (3 bytes at 6).
MaxHexLen == 6

\* Longest argument drawn from the mixed hex / prefix / whitespace characters.
MaxMixLen == 4

\* Longest argument drawn from the base58 alphabet (58^5 < 2^31).
MaxB58Len == 4

\* Longest argument drawn from the characters around the base58 alphabet.
MaxBadLen == 4

\* Most words after the subcommand.
MaxOperands == 2

\* All strings over chars of a length in lo..hi.
Strings(chars, lo, hi) == UNION {[1..k -> chars] : k \in lo..hi}

\* '0' '3' '9' 'a' 'f': lowercase hex digits (0x39 is 57, the last digit of
\* the alphabet, 0x3a is 58, 0xff the largest byte).
HexSample == {48, 51, 57, 97, 102}

\* '0' 'a' 'F' 'x' 'X' ' ' '\t': digits of both cases, the prefix letters
\* (no hex digits), a space and a whitespace character that is no space.
MixSample == {48, 97, 70, 120, 88, 32, 9}

\* '1' '2' '9' 'A' 'a' 'z': digits 0, 1, 8, 9, 33 and 57 of the alphabet.
B58Sample == {49, 50, 57, 65, 97, 122}

\* 'z' of the alphabet, '0' 'O' 'I' 'l' outside it, and '\n': whitespace
\* that strip() removes at the ends and that is outside the alphabet within.
BadSample == {122, 48, 79, 73, 108, 10}

\* 'b58hex.py', 'script/b58hex.py', and a name with a line break in it.
Progs == {<<98, 53, 56, 104, 101, 120, 46, 112, 121>>,
          <<115, 99, 114, 105, 112, 116, 47, 98, 53, 56, 104, 101, 120, 46, 112, 121>>,
          <<115, 99, 114, 105, 112, 116, 115, 47, 98, 53, 56, 10, 104, 101, 120, 46, 112, 121>>}

\* 'b58hex.py', the name the long arguments are tried under.
Prog == <<98, 53, 56, 104, 101, 120, 46, 112, 121>>

\* The subcommands of the short command lines: the two of main, and 'help'.
Subcommands == {HEX2B58, B582HEX, <<104, 101, 108, 112>>}

\* Their operands: '00' (valid hex, invalid base58), 'zz' (valid base58,
\* invalid hex) and ''.
Operands == {<<48, 48>>, <<122, 122>>, <<>>}

\* Arguments the documentation names: 'abc', 'xy12', '0x', '0xAB', 'ab',
\* '0000abcd', 'abcd', '0OIl' and '16Uw'.
Vectors == {<<97, 98, 99>>, <<120, 121, 49, 50>>, <<48, 120>>, <<48, 120, 65, 66>>,
            <<97, 98>>, <<48, 48, 48, 48, 97, 98, 99, 100>>, <<97, 98, 99, 100>>,
            <<48, 79, 73, 108>>, <<49, 54, 85, 119>>}

\* The short command lines: no subcommand or one, then up to MaxOperands
\* operands, under every name.
ShortArgv ==
    {<<p>> \o c \o a : p \in Progs, c \in Strings(Subcommands, 0, 1),
                       a \in Strings(Operands, 0, MaxOperands)}

\* sys.argv is `Prog subcommand a` for a string a over chars of a length in
\* lo..hi.
LongArgv(av, subcommand, chars, lo, hi) ==
    \E k \in lo..hi : \E a \in [1..k -> chars] : av = <<Prog, subcommand, a>>

\* sys.argv at the start of the process: a short command line, one of the
\* two subcommands with a long argument, or either with a documented one.
ArgvInit(av) ==
    \/ av \in ShortArgv
    \/ LongArgv(av, HEX2B58, HexSample, 0, MaxHexLen)
    \/ LongArgv(av, HEX2B58, MixSample, 0, MaxMixLen)
    \/ LongArgv(av, B582HEX, B58Sample, 1, MaxB58Len)
    \/ LongArgv(av, B582HEX, BadSample, 0, MaxBadLen)
    \/ \E c \in {HEX2B58, B582HEX} : \E a \in Vectors : av = <<Prog, c, a>>

(***************************************************************************)
(* The process: main() and the routine it calls, step by step.             *)
(***************************************************************************)

VARIABLES
    argv,       \* sys.argv
    pc,         \* where the process is
    cmd, arg,   \* main's locals (line 61)
    h,          \* hex_to_b58's h after lines 19-21
    s,          \* hex_to_b58's accumulator s, b58_to_hex's stripped s
    b,          \* the bytes object b of either routine
    n,          \* the integer n of either routine
    i,          \* characters of s the loop of lines 44-45 has read
    ret,        \* the value the routine returned
    exc,        \* the message of the ValueError raised
    stdout,     \* what was written to standard output
    stderr,     \* what was written to standard error
    exit_code   \* the process's exit status, -1 while it runs

vars == <<argv, pc, cmd, arg, h, s, b, n, i, ret, exc, stdout, stderr, exit_code>>

locals == <<h, s, b, n, i, ret, exc>>

Init ==
    /\ ArgvInit(argv)
    /\ pc = "main"
    /\ cmd = <<>> /\ arg = <<>>
    /\ h = <<>> /\ s = <<>> /\ b = <<>> /\ n = 0 /\ i = 0
    /\ ret = <<>> /\ exc = <<>>
    /\ stdout = <<>> /\ stderr = <<>>
    /\ exit_code = -1

\* A variant of Usage: SystemExit(2).
UsageExit2 ==
    /\ stderr' = stderr \o UsageMsg(argv[1])
    /\ exit_code' = 2
    /\ pc' = "exit"

\* usage(), lines 52-56: the text goes to standard error, SystemExit(1).
Usage ==
    /\ stderr' = stderr \o UsageMsg(argv[1])
    /\ exit_code' = 1
    /\ pc' = "exit"

\* Lines 59-60: a wrong number of arguments.
MainBadArgc ==
    /\ pc = "main"
    /\ Len(argv) # 3
    /\ Usage
    /\ UNCHANGED <<argv, cmd, arg, locals, stdout>>

\* Lines 59 and 61: cmd, arg = sys.argv[1], sys.argv[2].
MainArgs ==
    /\ pc = "main"
    /\ Len(argv) = 3
    /\ cmd' = argv[2]
    /\ arg' = argv[3]
    /\ pc' = "try"
    /\ UNCHANGED <<argv, locals, stdout, stderr, exit_code>>

\* Lines 63-64: hex_to_b58(arg) is called.
CallHexToB58 ==
    /\ pc = "try"
    /\ cmd = HEX2B58
    /\ pc' = "hex_to_b58"
    /\ UNCHANGED <<argv, cmd, arg, locals, stdout, stderr, exit_code>>

\* Lines 65-66: b58_to_hex(arg) is called.
CallB58ToHex ==
    /\ pc = "try"
    /\ cmd # HEX2B58
    /\ cmd = B582HEX
    /\ pc' = "b58_to_hex"
    /\ UNCHANGED <<argv, cmd, arg, locals, stdout, stderr, exit_code>>

\* Lines 67-68: neither subcommand; the SystemExit usage() raises is no
\* ValueError and passes the except clause.
MainBadCmd ==
    /\ pc = "try"
    /\ cmd # HEX2B58
    /\ cmd # B582HEX
    /\ Usage
    /\ UNCHANGED <<argv, cmd, arg, locals, stdout>>

\* Lines 19-21 of hex_to_b58.
HexNormalizeLines ==
    /\ pc = "hex_to_b58"
    /\ h' = HexNormalize(arg)
    /\ pc' = "hex_check"
    /\ UNCHANGED <<argv, cmd, arg, s, b, n, i, ret, exc, stdout, stderr, exit_code>>

\* Lines 22-23: the ValueError.
HexReject ==
    /\ pc = "hex_check"
    /\ ~HexValid(h)
    /\ exc' = MsgBadHex
    /\ pc' = "except"
    /\ UNCHANGED <<argv, cmd, arg, h, s, b, n, i, ret, stdout, stderr, exit_code>>

\* A variant of HexAccept: line 22 left out, the conversion starts unchecked.
HexAcceptUnchecked ==
    /\ pc = "hex_check"
    /\ b' = Unhexlify(h)
    /\ n' = FromBytesBig(b')
    /\ s' = <<>>
    /\ pc' = "hex_loop"
    /\ UNCHANGED <<argv, cmd, arg, h, i, ret, exc, stdout, stderr, exit_code>>

\* Lines 22, 24, 25 and 27: the string passed; b, n and the empty s.
HexAccept ==
    /\ pc = "hex_check"
    /\ HexValid(h)
    /\ b' = Unhexlify(h)
    /\ n' = FromBytesBig(b')
    /\ s' = <<>>
    /\ pc' = "hex_loop"
    /\ UNCHANGED <<argv, cmd, arg, h, i, ret, exc, stdout, stderr, exit_code>>

\* Lines 28-30: one iteration of `while n`.
HexLoopStep ==
    /\ pc = "hex_loop"
    /\ n # 0
    /\ LET st == EncodeStep([n |-> n, s |-> s])
       IN  n' = st.n /\ s' = st.s
    /\ UNCHANGED <<argv, pc, cmd, arg, h, b, i, ret, exc, stdout, stderr, exit_code>>

\* Lines 28, 32 and 33: the loop ends and the routine returns.
HexReturn ==
    /\ pc = "hex_loop"
    /\ n = 0
    /\ ret' = HexResult(HexPad(b), s)
    /\ pc' = "print"
    /\ UNCHANGED <<argv, cmd, arg, h, s, b, n, i, exc, stdout, stderr, exit_code>>

\* Line 36 of b58_to_hex.
B58StripLine ==
    /\ pc = "b58_to_hex"
    /\ s' = Strip(arg)
    /\ pc' = "b58_check"
    /\ UNCHANGED <<argv, cmd, arg, h, b, n, i, ret, exc, stdout, stderr, exit_code>>

\* Lines 37-38: the ValueError for an empty string.
B58RejectEmpty ==
    /\ pc = "b58_check"
    /\ s = <<>>
    /\ exc' = MsgEmptyB58
    /\ pc' = "except"
    /\ UNCHANGED <<argv, cmd, arg, h, s, b, n, i, ret, stdout, stderr, exit_code>>

\* Lines 39-41: the ValueError that names the characters outside ALPH.
B58RejectBad ==
    /\ pc = "b58_check"
    /\ s # <<>>
    /\ BadChars(s) # <<>>
    /\ exc' = B58BadMessage(BadChars(s))
    /\ pc' = "except"
    /\ UNCHANGED <<argv, cmd, arg, h, s, b, n, i, ret, stdout, stderr, exit_code>>

\* Lines 37, 39, 40 and 43: the string passed; n = 0.
B58Accept ==
    /\ pc = "b58_check"
    /\ s # <<>>
    /\ BadChars(s) = <<>>
    /\ n' = 0
    /\ i' = 0
    /\ pc' = "b58_loop"
    /\ UNCHANGED <<argv, cmd, arg, h, s, b, ret, exc, stdout, stderr, exit_code>>

\* Lines 44-45: one iteration of `for c in s`.
B58LoopStep ==
    /\ pc = "b58_loop"
    /\ i < Len(s)
    /\ LET st == DecodeStep([n |-> n, i |-> i], s)
       IN  n' = st.n /\ i' = st.i
    /\ UNCHANGED <<argv, pc, cmd, arg, h, s, b, ret, exc, stdout, stderr, exit_code>>

\* Lines 47-50: the loop has ended and the routine returns.
B58Return ==
    /\ pc = "b58_loop"
    /\ i = Len(s)
    /\ b' = Repeat(ZERO_BYTE, B58Pad(s)) \o MinimalBytes(n)
    /\ ret' = B58Result(B58Pad(s), MinimalBytes(n))
    /\ pc' = "print"
    /\ UNCHANGED <<argv, cmd, arg, h, s, n, i, exc, stdout, stderr, exit_code>>

\* Lines 64 and 66: print() writes the value returned and a line break.
PrintResult ==
    /\ pc = "print"
    /\ stdout' = stdout \o ret \o <<NEWLINE>>
    /\ pc' = "return"
    /\ UNCHANGED <<argv, cmd, arg, locals, stderr, exit_code>>

\* Line 74: main() returns and the interpreter exits with status 0.
MainReturn ==
    /\ pc = "return"
    /\ exit_code' = 0
    /\ pc' = "exit"
    /\ UNCHANGED <<argv, cmd, arg, locals, stdout, stderr>>

\* A variant of HandleValueError: the message written without its '\n'.
HandleValueErrorNoNewline ==
    /\ pc = "except"
    /\ stderr' = stderr \o ErrPrefix \o exc
    /\ exit_code' = 2
    /\ pc' = "exit"
    /\ UNCHANGED <<argv, cmd, arg, locals, stdout>>

\* Lines 69-71: the except clause.
HandleValueError ==
    /\ pc = "except"
    /\ stderr' = stderr \o ErrPrefix \o exc \o <<NEWLINE>>
    /\ exit_code' = 2
    /\ pc' = "exit"
    /\ UNCHANGED <<argv, cmd, arg, locals, stdout>>

Next ==
    \/ MainBadArgc
    \/ MainArgs
    \/ CallHexToB58
    \/ CallB58ToHex
    \/ MainBadCmd
    \/ HexNormalizeLines
    \/ HexReject
    \/ HexAccept
    \/ HexLoopStep
    \/ HexReturn
    \/ B58StripLine
    \/ B58RejectEmpty
    \/ B58RejectBad
    \/ B58Accept
    \/ B58LoopStep
    \/ B58Return
    \/ PrintResult
    \/ MainReturn
    \/ HandleValueError

Spec == Init /\ [][Next]_vars

(***************************************************************************)
(* The process and the functions agree: what the process returns, raises   *)
(* and exits with is what the operators hex_to_b58 and b58_to_hex give.    *)
(***************************************************************************)
ProcessMatchesFunctions ==
    (pc = "exit" /\ Len(argv) = 3 /\ argv[2] \in {HEX2B58, B582HEX}) =>
        LET r == IF argv[2] = HEX2B58 THEN hex_to_b58(argv[3])
                 ELSE b58_to_hex(argv[3])
        IN  IF r.ok THEN exit_code = 0 /\ ret = r.val
            ELSE exit_code = 2 /\ exc = r.val

(***************************************************************************)
(* Vocabulary of the properties, stated apart from the routines above.     *)
(***************************************************************************)

\* The process has ended.
Exited == pc = "exit"

\* The process was started as `prog hex2b58 x` / `prog b582hex x`.
RanHex2B58 == Len(argv) = 3 /\ argv[2] = HEX2B58

RanB582Hex == Len(argv) = 3 /\ argv[2] = B582HEX

\* x is a non-empty string over chars.
NonEmptyOver(x, chars) == x # <<>> /\ \A k \in 1..Len(x) : x[k] \in chars

\* x is a non-empty even-length string over digits.
EvenOver(x, digits) == NonEmptyOver(x, digits) /\ Len(x) % 2 = 0

\* [0-9a-f], and [0-9a-fA-F].
LowerHexDigits == (48..57) \cup (97..102)

AnyHexDigits == LowerHexDigits \cup (65..70)

\* The 58 characters of the alphabet.
Alphabet == {ALPH[k] : k \in 1..Len(ALPH)}

\* space, tab, newline, carriage return.
Blank == {32, 9, 10, 13}

\* x without its elements in set.
Without(x, set) == SelectSeq(x, LAMBDA c : c \notin set)

\* x between its first and its last character that is not in set.
Trimmed(x, set) ==
    LET keep == {k \in 1..Len(x) : x[k] \notin set}
    IN  IF keep = {} THEN <<>>
        ELSE SubSeq(x, CHOOSE k \in keep : \A j \in keep : k <= j,
                       CHOOSE k \in keep : \A j \in keep : k >= j)

\* x with its letters A-F lowercased.
FoldCase(x) == [k \in 1..Len(x) |-> IF x[k] \in 65..70 THEN x[k] + 32 ELSE x[k]]

\* The number of lines of a text: its line breaks.
Lines(text) == Cardinality({k \in 1..Len(text) : text[k] = 10})

\* text is whole lines: it ends with a line break.
EndsLine(text) == text # <<>> /\ text[Len(text)] = 10

(***************************************************************************)
(* C1.  Round trip hex -> base58 -> hex: for every non-empty even-length   *)
(* string h over [0-9a-f], hex_to_b58(h) succeeds, b58_to_hex of its       *)
(* result succeeds, and that gives h back, leading 00 bytes and all-zero   *)
(* inputs included.                                                        *)
(***************************************************************************)
C1_RoundTripHex ==
    (Exited /\ RanHex2B58 /\ EvenOver(argv[3], LowerHexDigits)) =>
        /\ exit_code = 0
        /\ b58_to_hex(ret).ok
        /\ b58_to_hex(ret).val = argv[3]

\* Three bytes, the first one 00 and a value that is not zero: '00' and two
\* more bytes come back from a '1' and base58 digits.
C1_Witness ==
    /\ Exited /\ RanHex2B58 /\ EvenOver(argv[3], LowerHexDigits)
    /\ Len(argv[3]) = 6 /\ SubSeq(argv[3], 1, 2) = <<48, 48>>
    /\ exit_code = 0
    /\ Len(ret) > 1 /\ ret[1] = 49 /\ ret[2] # 49
    /\ b58_to_hex(ret).val = argv[3]

(***************************************************************************)
(* C2.  Round trip base58 -> hex -> base58: for every non-empty string s   *)
(* over the alphabet, b58_to_hex(s) succeeds, hex_to_b58 of its result     *)
(* succeeds (it is never rejected as invalid hex), and that gives s back,  *)
(* strings that start with or consist of '1' included.                     *)
(***************************************************************************)
C2_RoundTripB58 ==
    (Exited /\ RanB582Hex /\ NonEmptyOver(argv[3], Alphabet)) =>
        /\ exit_code = 0
        /\ hex_to_b58(ret).ok
        /\ hex_to_b58(ret).val = argv[3]

\* '11' and two more digits: two 00 bytes and a value come back as they were.
C2_Witness ==
    /\ Exited /\ RanB582Hex
    /\ Len(argv[3]) = 4 /\ SubSeq(argv[3], 1, 2) = <<49, 49>> /\ argv[3][3] # 49
    /\ exit_code = 0
    /\ SubSeq(ret, 1, 4) = <<48, 48, 48, 48>>
    /\ hex_to_b58(ret).val = argv[3]

\* The number of leading '00' pairs of a hex string.
RECURSIVE LeadingZeroBytes(_)
LeadingZeroBytes(x) ==
    IF Len(x) >= 2 /\ x[1] = 48 /\ x[2] = 48
    THEN 1 + LeadingZeroBytes(SubSeq(x, 3, Len(x)))
    ELSE 0

\* The value of a string of hex digits, most significant digit first.
RECURSIVE HexValue(_)
HexValue(x) ==
    IF x = <<>> THEN 0
    ELSE 16 * HexValue(SubSeq(x, 1, Len(x) - 1))
         + (CHOOSE d \in 0..15 :
               <<48, 49, 50, 51, 52, 53, 54, 55, 56, 57, 97, 98, 99, 100, 101, 102>>[d + 1]
                   = x[Len(x)])

\* The base-58 digits of v, most significant first; none for 0.
RECURSIVE Base58Digits(_)
Base58Digits(v) ==
    IF v = 0 THEN <<>> ELSE Base58Digits(v \div 58) \o <<v % 58>>

(***************************************************************************)
(* C3.  The encoder's result: for a valid hex input whose bytes start with *)
(* exactly N zero bytes and whose big-endian value is v, hex_to_b58        *)
(* returns N times '1' and then the base-58 digits of v, most significant  *)
(* first, in the alphabet (none when v = 0); the digits never start with   *)
(* '1', so the result starts with exactly N times '1'.                     *)
(***************************************************************************)
C3_EncoderResult ==
    (Exited /\ RanHex2B58 /\ exit_code = 0) =>
        LET N == LeadingZeroBytes(h)
            d == Base58Digits(HexValue(h))
        IN  /\ ret = [k \in 1..N |-> 49] \o [k \in 1..Len(d) |-> ALPH[d[k] + 1]]
            /\ (d # <<>> => ALPH[d[1] + 1] # 49)
            /\ Len(ret) >= N
            /\ \A k \in 1..N : ret[k] = 49
            /\ (Len(ret) > N => ret[N + 1] # 49)

\* '00003a': two zero bytes and the value 58, whose digits are 1 0: '1121'.
C3_Witness ==
    /\ Exited /\ RanHex2B58 /\ exit_code = 0
    /\ h = <<48, 48, 48, 48, 51, 97>>
    /\ ret = <<49, 49, 50, 49>>

(***************************************************************************)
(* C4.  Hex validation: hex_to_b58 fails with its ValueError exactly when  *)
(* the input, after lines 19-21 have cut the prefix and normalised it, is  *)
(* empty, of odd length, or has a character outside [0-9a-f]; 'abc',       *)
(* 'xy12', '' and '0x' fail, and every non-empty even-length string of hex *)
(* digits succeeds.                                                        *)
(***************************************************************************)
C4_HexValidation ==
    (Exited /\ RanHex2B58) =>
        /\ exit_code \in {0, 2}
        /\ exit_code = 2 <=>
              \/ h = <<>>
              \/ Len(h) % 2 = 1
              \/ \E k \in 1..Len(h) : h[k] \notin LowerHexDigits
        /\ exit_code = 2 => exc = MsgBadHex /\ stderr = ErrPrefix \o MsgBadHex \o <<10>>
        /\ argv[3] \in {<<97, 98, 99>>, <<120, 121, 49, 50>>, <<>>, <<48, 120>>}
              => exit_code = 2
        /\ EvenOver(argv[3], AnyHexDigits) => exit_code = 0

\* 'abc': hex digits only, an odd number of them.
C4_Witness ==
    /\ Exited /\ RanHex2B58
    /\ argv[3] = <<97, 98, 99>>
    /\ exit_code = 2
    /\ stderr = ErrPrefix \o MsgBadHex \o <<10>>

(***************************************************************************)
(* C5.  Base58 validation: b58_to_hex fails with its ValueError exactly    *)
(* when the input, with the whitespace around it trimmed, is empty or has  *)
(* a character outside the alphabet; the message then lists every          *)
(* offending character once, in ascending order, and no valid character    *)
(* ('0OIl' reports 0, I, O and l).                                         *)
(***************************************************************************)
C5_Base58Validation ==
    (Exited /\ RanB582Hex) =>
        LET t == Trimmed(argv[3], WHITESPACE)
            off == {t[k] : k \in 1..Len(t)} \ Alphabet
            fixed == ErrPrefix \o MsgBadB58
            listed == SubSeq(stderr, Len(fixed) + 1, Len(stderr) - 1)
        IN  /\ exit_code \in {0, 2}
            /\ exit_code = 2 <=> (t = <<>> \/ off # {})
            /\ (t # <<>> /\ off # {}) =>
                  /\ SubSeq(stderr, 1, Len(fixed)) = fixed
                  /\ stderr[Len(stderr)] = 10
                  /\ {listed[k] : k \in 1..Len(listed)} = off
                  /\ \A j, k \in 1..Len(listed) : j < k => listed[j] < listed[k]

\* '0OIl': the message ends with '0IOl'.
C5_Witness ==
    /\ Exited /\ RanB582Hex
    /\ argv[3] = <<48, 79, 73, 108>>
    /\ exit_code = 2
    /\ stderr = ErrPrefix \o MsgBadB58 \o <<48, 73, 79, 108, 10>>

\* x after an optional '0x' or '0X' at its start.
AfterPrefix(x) ==
    IF Len(x) >= 2 /\ x[1] = 48 /\ x[2] \in {120, 88} THEN SubSeq(x, 3, Len(x))
    ELSE x

(***************************************************************************)
(* C6.  0x prefix and case: for every non-empty even-length lowercase hex  *)
(* string h and every input made from h by changing the case of letters    *)
(* and optionally putting '0x' or '0X' in front, hex_to_b58(input)         *)
(* succeeds and equals hex_to_b58(h).                                      *)
(***************************************************************************)
C6_PrefixAndCase ==
    (Exited /\ RanHex2B58 /\ EvenOver(AfterPrefix(argv[3]), AnyHexDigits)) =>
        LET plain == hex_to_b58(FoldCase(AfterPrefix(argv[3])))
        IN  /\ plain.ok
            /\ exit_code = 0
            /\ ret = plain.val

\* '0xAB' gives what 'ab' gives, '3x'.
C6_Witness ==
    /\ Exited /\ RanHex2B58
    /\ argv[3] = <<48, 120, 65, 66>>
    /\ exit_code = 0
    /\ ret = hex_to_b58(<<97, 98>>).val
    /\ ret = <<51, 120>>

(***************************************************************************)
(* C7.  Whitespace in the hex encoder, as claimed: for every non-empty     *)
(* even-length hex string h and every input made from h by inserting       *)
(* spaces, tabs, newlines or carriage returns before, after or between its *)
(* digits, hex_to_b58(input) succeeds and equals hex_to_b58(h).            *)
(***************************************************************************)
C7_AnyWhitespaceStripped ==
    (Exited /\ RanHex2B58 /\ EvenOver(Without(argv[3], Blank), AnyHexDigits)) =>
        /\ exit_code = 0
        /\ ret = hex_to_b58(Without(argv[3], Blank)).val

(***************************************************************************)
(* C7, amended.  The same for every input made from h by inserting spaces, *)
(* tabs, newlines or carriage returns before or after its digits and       *)
(* spaces (only) between them.                                             *)
(***************************************************************************)
C7_SpacesStripped ==
    (Exited /\ RanHex2B58 /\ EvenOver(Without(argv[3], Blank), AnyHexDigits)
            /\ \A k \in 1..Len(Trimmed(argv[3], Blank)) :
                  Trimmed(argv[3], Blank)[k] \in AnyHexDigits \cup {32}) =>
        /\ hex_to_b58(Without(argv[3], Blank)).ok
        /\ exit_code = 0
        /\ ret = hex_to_b58(Without(argv[3], Blank)).val

\* A tab in front and a space between the two digits.
C7_Witness ==
    /\ Exited /\ RanHex2B58
    /\ Len(argv[3]) = 4 /\ argv[3][1] = 9 /\ argv[3][3] = 32
    /\ EvenOver(Without(argv[3], Blank), AnyHexDigits)
    /\ exit_code = 0
    /\ ret = hex_to_b58(Without(argv[3], Blank)).val

\* The conversion the command line selects succeeds.
Converts ==
    \/ RanHex2B58
       /\ EvenOver(Without(Trimmed(AfterPrefix(argv[3]), WHITESPACE), {32}), AnyHexDigits)
    \/ RanB582Hex
       /\ NonEmptyOver(Trimmed(argv[3], WHITESPACE), Alphabet)

(***************************************************************************)
(* C8.  Exit codes: the process exits with 1, the usage on standard error, *)
(* exactly when the words after the program's name are not two or the      *)
(* subcommand is neither hex2b58 nor b582hex (whatever the second word);   *)
(* with 2 exactly when the subcommand is one of the two and its conversion *)
(* fails validation; with 0 only when the conversion succeeds.             *)
(***************************************************************************)
C8_ExitCodes ==
    Exited =>
        /\ exit_code \in {0, 1, 2}
        /\ exit_code = 1 <=> ~(RanHex2B58 \/ RanB582Hex)
        /\ exit_code = 1 => SubSeq(stderr, 1, 6) = <<85, 115, 97, 103, 101, 58>>
        /\ exit_code = 2 <=> ((RanHex2B58 \/ RanB582Hex) /\ ~Converts)
        /\ exit_code = 0 => ((RanHex2B58 \/ RanB582Hex) /\ Converts)

\* `help 00`: two words, the second one valid hex, an unknown subcommand.
C8_Witness ==
    /\ Exited
    /\ Len(argv) = 3 /\ argv[2] = <<104, 101, 108, 112>> /\ argv[3] = <<48, 48>>
    /\ exit_code = 1
    /\ SubSeq(stderr, 1, 6) = <<85, 115, 97, 103, 101, 58>>

(***************************************************************************)
(* C9.  Diagnostics, as claimed: every failure (exit code 1 or 2) has      *)
(* written exactly one line to standard error.                             *)
(***************************************************************************)
C9_OneLineDiagnostic ==
    (Exited /\ exit_code \in {1, 2}) => EndsLine(stderr) /\ Lines(stderr) = 1

(***************************************************************************)
(* C9, amended.  Every failure has written exactly one diagnostic to       *)
(* standard error: a usage error the usage text, three lines when the      *)
(* program's name has no line break; a validation error a text that starts *)
(* with 'error: ', one line when the argument has no line break between    *)
(* its first and last characters that are no whitespace.                   *)
(***************************************************************************)
C9_OneDiagnostic ==
    (Exited /\ exit_code \in {1, 2}) =>
        /\ EndsLine(stderr)
        /\ exit_code = 1 =>
              /\ SubSeq(stderr, 1, 7) = <<85, 115, 97, 103, 101, 58, 10>>
              /\ Lines(argv[1]) = 0 => Lines(stderr) = 3
        /\ exit_code = 2 =>
              /\ SubSeq(stderr, 1, 7) = <<101, 114, 114, 111, 114, 58, 32>>
              /\ Lines(Trimmed(argv[3], WHITESPACE)) = 0 => Lines(stderr) = 1

\* A usage error under a name without a line break: three lines.
C9_Witness ==
    /\ Exited /\ exit_code = 1
    /\ Lines(argv[1]) = 0
    /\ Lines(stderr) = 3

(***************************************************************************)
(* C10.  No partial output: standard output is written only after the      *)
(* selected conversion has validated its input and returned; a run that    *)
(* ends with a non-zero exit code has written nothing to standard output,  *)
(* one that ends with 0 exactly one line, the result; and in each routine  *)
(* the loop runs only on a string that has passed every validation check.  *)
(***************************************************************************)
C10_NoPartialOutput ==
    /\ stdout # <<>> =>
          /\ pc \in {"return", "exit"}
          /\ Converts
          /\ stdout = ret \o <<10>>
          /\ Lines(stdout) = 1
    /\ (Exited /\ exit_code # 0) => stdout = <<>>
    /\ (Exited /\ exit_code = 0) => stdout # <<>>
    /\ pc = "hex_loop" => EvenOver(h, LowerHexDigits) /\ stdout = <<>>
    /\ pc = "b58_loop" => NonEmptyOver(s, Alphabet) /\ stdout = <<>>
    /\ pc \in {"main", "try", "hex_to_b58", "hex_check", "b58_to_hex", "b58_check",
               "print", "except"} => stdout = <<>>

\* A run of b582hex that has ended with 0 and one line on standard output.
C10_Witness ==
    /\ Exited /\ RanB582Hex /\ exit_code = 0
    /\ Len(ret) >= 2
    /\ stdout = ret \o <<10>>
    /\ stderr = <<>>

====
